---- MODULE Spec2Model ----
(***************************************************************************)
(* Model of PWGHF/D2H/Tasks/taskCharmPolarisation.cxx                      *)
(* (struct TaskPolarisationCharmHadrons): the configuration checks of      *)
(* init, the histogram registration, the dispatch of candidates to         *)
(* runPolarisationAnalysis and the fills it issues.                        *)
(*                                                                         *)
(* Momenta and masses are integers in MeV, ML scores in per mille, angles  *)
(* are fractions of a full turn, sines and cosines are in thousandths.     *)
(* Rapidities and the four cosines are kept as terms over their inputs     *)
(* (tuples <<function name, arguments>>).                                  *)
(***************************************************************************)
EXTENDS Integers, Sequences, FiniteSets, TLC

\* ---------------------------------------------------------------- bounds
MaxRot == 2      \* largest configured nBkgRotations
MaxCands == 2    \* number of candidates delivered by the framework in a run

\* ------------------------------------------------------------- constants
DstarToDzeroPi == 0
LcToPKPi == 1
PKPi == 0
PiKP == 1
NMassHypoLcToPKPi == 2

MassPiPlus == 140
MassProton == 938
MassKaonCharged == 494
MassDStar == 2010
MassLambdaCPlus == 2286

\* sentinel of the ML output triplet
MlSentinel == -1

HistHelicity == "hSparseCharmPolarisationHelicity"
HistProduction == "hSparseCharmPolarisationProduction"
HistBeam == "hSparseCharmPolarisationBeam"
HistRandom == "hSparseCharmPolarisationRandom"
HistNames == {HistHelicity, HistProduction, HistBeam, HistRandom}

\* ------------------------------------------------------------- variables
VARIABLES
  doprocessDstar, doprocessDstarWithMl, doprocessLcToPKPi, doprocessLcToPKPiWithMl,
  activateTHnSparseCosThStarHelicity, activateTHnSparseCosThStarProduction,
  activateTHnSparseCosThStarBeam, activateTHnSparseCosThStarRandom,
  nBkgRotations, selectionFlagLcToPKPi, selectionFlagDstarToD0Pi,
  status,                 \* "constructed", "fatal" (LOGP(fatal) raised) or "ready"
  nMassHypos, bkgRotationAngleStep,
  registry,               \* histogram name -> [axes, entries], registered names only
  gRandom,                \* number of draws taken from the random source so far
  processed,              \* the candidates handed to the process function so far
  trace,                  \* the iterations of the mass-hypothesis loop executed so far
  twin                    \* registry, gRandom, processed and trace of a second run of the
                          \* task under the same configuration

config == <<doprocessDstar, doprocessDstarWithMl, doprocessLcToPKPi, doprocessLcToPKPiWithMl,
            activateTHnSparseCosThStarHelicity, activateTHnSparseCosThStarProduction,
            activateTHnSparseCosThStarBeam, activateTHnSparseCosThStarRandom,
            nBkgRotations, selectionFlagLcToPKPi, selectionFlagDstarToD0Pi>>

vars == <<config, status, nMassHypos, bkgRotationAngleStep, registry, gRandom, processed, trace, twin>>

\* ------------------------------------------------------------ candidates
\* A row of soa::Join<HfCandDstar, HfSelDstarToD0Pi>
DstarCand(sel, sign) ==
  [kind |-> "Dstar", isSelDstarToD0Pi |-> sel, signSoftPi |-> sign,
   pSoftPi |-> <<30, 40, 10>>, pDstar |-> <<300, 400, 100>>,
   invMassDstar |-> 2010, invMassAntiDstar |-> 2013,
   invMassD0 |-> 1865, invMassD0Bar |-> 1867]

\* a selected D* flying along the beam axis: px = py = 0
DstarCandAlongBeam == [DstarCand(TRUE, 1) EXCEPT !.pDstar = <<0, 0, 500>>]

DstarCands == {DstarCand(sel, sign) : sel \in BOOLEAN, sign \in {-1, 1}} \cup {DstarCandAlongBeam}

\* A row of soa::Join<HfCand3Prong, HfSelLc[, HfMlLcToPKPi]>; px, py, pz of the
\* candidate are the sums of the prong components.  invMassLcToPKPi and
\* invMassLcToPiKP are the values HfHelper returns for the row; HfHelper works
\* with the double-precision particle masses, the task with its float copies,
\* so they need not equal the mass the task recomputes from the prongs.
LcCand(selPKPi, selPiKP, mlPKPi, mlPiKP) ==
  [kind |-> "Lc", isSelLcToPKPi |-> selPKPi, isSelLcToPiKP |-> selPiKP,
   pProng0 |-> <<800, 100, 300>>, pProng1 |-> <<-100, 600, -100>>, pProng2 |-> <<300, -300, 200>>,
   p |-> <<1000, 400, 400>>,
   invMassLcToPKPi |-> 2277, invMassLcToPiKP |-> 2453,
   mlProbLcToPKPi |-> mlPKPi, mlProbLcToPiKP |-> mlPiKP]

MlFull == <<100, 300, 600>>
MlFullSwapped == <<700, 200, 50>>
MlEmpty == << >>

LcCands ==
  {LcCand(s[1], s[2], MlFull, MlFullSwapped) : s \in {<<1, 0>>, <<0, 1>>, <<1, 1>>, <<2, 1>>, <<0, 0>>}}
  \cup {LcCand(1, 1, MlEmpty, MlEmpty), LcCand(1, 0, MlEmpty, MlFullSwapped), LcCand(2, 2, MlFull, MlEmpty)}

\* ------------------------------------------------------------------ Init
Init ==
  /\ doprocessDstar \in BOOLEAN
  /\ doprocessDstarWithMl \in BOOLEAN
  /\ doprocessLcToPKPi \in BOOLEAN
  /\ doprocessLcToPKPiWithMl \in BOOLEAN
  /\ activateTHnSparseCosThStarHelicity \in BOOLEAN
  /\ activateTHnSparseCosThStarProduction \in BOOLEAN
  /\ activateTHnSparseCosThStarBeam \in BOOLEAN
  /\ activateTHnSparseCosThStarRandom \in BOOLEAN
  /\ nBkgRotations \in 0..MaxRot
  /\ selectionFlagLcToPKPi \in {1, 2}
  /\ selectionFlagDstarToD0Pi = TRUE
  /\ status = "constructed"
  /\ nMassHypos = 0
  /\ bkgRotationAngleStep = [num |-> 0, den |-> 1]
  /\ registry = << >>
  /\ gRandom = 0
  /\ processed = << >>
  /\ trace = << >>
  /\ twin = [registry |-> << >>, gRandom |-> 0, processed |-> << >>, trace |-> << >>]

\* ------------------------------------------------------------------ init
Bit(b) == IF b THEN 1 ELSE 0

\* std::accumulate over {doprocessDstar, doprocessDstarWithMl, doprocessLcToPKPi, doprocessLcToPKPiWithMl}
nProcesses ==
  Bit(doprocessDstar) + Bit(doprocessDstarWithMl) + Bit(doprocessLcToPKPi) + Bit(doprocessLcToPKPiWithMl)

\* std::accumulate over the four activateTHnSparseCosThStar* toggles
nSparses ==
  Bit(activateTHnSparseCosThStarHelicity) + Bit(activateTHnSparseCosThStarProduction)
  + Bit(activateTHnSparseCosThStarBeam) + Bit(activateTHnSparseCosThStarRandom)

ProcessesCheckFatalOnlyMany(n) == n > 1

\* the process-function check raises LOGP(fatal, ...)
ProcessesCheckFatal(n) == n > 1 \/ n = 0

SparsesCheckFatalBelowTwo(n) == n <= 1

\* the output-THnSparse check raises LOGP(fatal, ...)
SparsesCheckFatal(n) == n = 0

Activated(h) ==
  CASE h = HistHelicity -> activateTHnSparseCosThStarHelicity
    [] h = HistProduction -> activateTHnSparseCosThStarProduction
    [] h = HistBeam -> activateTHnSparseCosThStarBeam
    [] h = HistRandom -> activateTHnSparseCosThStarRandom

thnAxisCosThetaStar(h) ==
  CASE h = HistHelicity -> "thnAxisCosThetaStarHelicity"
    [] h = HistProduction -> "thnAxisCosThetaStarProduction"
    [] h = HistBeam -> "thnAxisCosThetaStarBeam"
    [] h = HistRandom -> "thnAxisCosThetaStarRandom"

\* axis lists of the registry.add calls, one definition per branch of init
AxesDstarWithMl(h) ==
  <<"thnAxisInvMass", "thnAxisPt", "thnAxisPz", "thnAxisY", thnAxisCosThetaStar(h),
    "thnAxisMlBkg", "thnAxisMlNonPrompt">>

AxesLcToPKPiWithMl(h) ==
  <<"thnAxisInvMass", "thnAxisPt", "thnAxisPz", "thnAxisY", thnAxisCosThetaStar(h),
    "thnAxisMlBkg", "thnAxisMlNonPrompt", "thnAxisIsRotatedCandidate">>

AxesDstar(h) ==
  <<"thnAxisInvMass", "thnAxisPt", "thnAxisPz", "thnAxisY", thnAxisCosThetaStar(h)>>

AxesLcToPKPi(h) ==
  <<"thnAxisInvMass", "thnAxisPt", "thnAxisPz", "thnAxisY", thnAxisCosThetaStar(h),
    "thnAxisIsRotatedCandidate">>

\* the if / else-if chain of init that adds the histograms of the enabled mode
RegisteredHistograms ==
  IF doprocessDstarWithMl
    THEN [h \in {x \in HistNames : Activated(x)} |-> [axes |-> AxesDstarWithMl(h), entries |-> << >>]]
  ELSE IF doprocessLcToPKPiWithMl
    THEN [h \in {x \in HistNames : Activated(x)} |-> [axes |-> AxesLcToPKPiWithMl(h), entries |-> << >>]]
  ELSE IF doprocessDstar
    THEN [h \in {x \in HistNames : Activated(x)} |-> [axes |-> AxesDstar(h), entries |-> << >>]]
  ELSE IF doprocessLcToPKPi
    THEN [h \in {x \in HistNames : Activated(x)} |-> [axes |-> AxesLcToPKPi(h), entries |-> << >>]]
  ELSE << >>

NMassHyposAlwaysTwo(isLc) == NMassHypoLcToPKPi

\* number of mass hypotheses to loop over
NMassHyposOfMode(isLc) == IF isLc THEN NMassHypoLcToPKPi ELSE 1

\* TaskPolarisationCharmHadrons::init; LOGP(fatal, ...) ends the run
init ==
  /\ status = "constructed"
  /\ IF ProcessesCheckFatal(nProcesses) \/ SparsesCheckFatal(nSparses)
       THEN /\ status' = "fatal"
            /\ UNCHANGED <<nMassHypos, bkgRotationAngleStep, registry, twin>>
       ELSE /\ status' = "ready"
            /\ bkgRotationAngleStep' = [num |-> 1, den |-> nBkgRotations + 1]
            /\ registry' = RegisteredHistograms
            /\ twin' = [twin EXCEPT !.registry = RegisteredHistograms]
            /\ nMassHypos' = NMassHyposOfMode(doprocessLcToPKPi \/ doprocessLcToPKPiWithMl)
  /\ UNCHANGED <<config, gRandom, processed, trace>>

\* ------------------------------------------------------------ kinematics
\* largest r with r * r <= n
RECURSIVE SqrtSearch(_, _, _)
SqrtSearch(n, lo, hi) ==
  IF lo >= hi THEN lo
  ELSE LET mid == (lo + hi + 1) \div 2
       IN IF mid * mid <= n THEN SqrtSearch(n, mid, hi) ELSE SqrtSearch(n, lo, mid - 1)

Sqrt(n) == SqrtSearch(n, 0, 46340)

\* x / 1000 rounded to the nearest integer
Milli(x) == (x + 500) \div 1000

\* cosine and sine, in thousandths, of num/den of a full turn (den in 1..6)
CosTable ==
  << <<1000>>, <<1000, -1000>>, <<1000, -500, -500>>, <<1000, 0, -1000, 0>>,
     <<1000, 309, -809, -809, 309>>, <<1000, 500, -500, -1000, -500, 500>> >>

SinTable ==
  << <<0>>, <<0, 0>>, <<0, 866, -866>>, <<0, 1000, 0, -1000>>,
     <<0, 951, 588, -588, -951>>, <<0, 866, 866, 0, -866, -866>> >>

Cos(a) == CosTable[a.den][(a.num % a.den) + 1]
Sin(a) == SinTable[a.den][(a.num % a.den) + 1]

Mag2(v) == v[1] * v[1] + v[2] * v[2] + v[3] * v[3]

\* RecoDecay::m of three prongs: sqrt((sum of E)^2 - |sum of p|^2)
RecoDecayM(prongs, masses) ==
  LET E(i) == Sqrt(Mag2(prongs[i]) + masses[i] * masses[i])
      eTot == E(1) + E(2) + E(3)
      pTot == <<prongs[1][1] + prongs[2][1] + prongs[3][1],
                prongs[1][2] + prongs[2][2] + prongs[3][2],
                prongs[1][3] + prongs[2][3] + prongs[3][3]>>
  IN Sqrt(eTot * eTot - Mag2(pTot))

\* RecoDecay::y, kept as a term over its arguments
RecoDecayY(p, m) == <<"RecoDecay::y", <<p, m>>>>

\* HfHelper::invMassLcToPKPi and HfHelper::invMassLcToPiKP
invMassLcToPKPi(c) == c.invMassLcToPKPi
invMassLcToPiKP(c) == c.invMassLcToPiKP

bkgRotAngleFromNext(bkgRotationId) ==
  [num |-> bkgRotationAngleStep.num * (bkgRotationId + 1), den |-> bkgRotationAngleStep.den]

\* const float bkgRotAngle = bkgRotationAngleStep * bkgRotationId
bkgRotAngle(bkgRotationId) ==
  [num |-> bkgRotationAngleStep.num * bkgRotationId, den |-> bkgRotationAngleStep.den]

threeVecLcRotatedProng1InXZ(c, a) ==
  <<Milli(c.pProng1[1] * Cos(a) - c.pProng1[3] * Sin(a)),
    c.pProng1[2],
    Milli(c.pProng1[1] * Sin(a) + c.pProng1[3] * Cos(a))>>

threeVecLcRotatedProng1(c, a) ==
  <<Milli(c.pProng1[1] * Cos(a) - c.pProng1[2] * Sin(a)),
    Milli(c.pProng1[1] * Sin(a) + c.pProng1[2] * Cos(a)),
    c.pProng1[3]>>

IsRotatedFromSecond(bkgRotationId) == bkgRotationId > 1

\* if (bkgRotationId > 0): the candidate momentum is recomputed from the prongs
IsRotated(bkgRotationId) == bkgRotationId > 0

MassIsRotatedAlways(bkgRotationId) == bkgRotationId >= 0

\* if (bkgRotationId): the invariant mass is recomputed from the prongs
MassIsRotated(bkgRotationId) == bkgRotationId # 0

MassHypoBranchUncheckedPiKP(c, iMass) ==
  IF iMass = PKPi /\ c.isSelLcToPKPi >= selectionFlagLcToPKPi THEN PKPi
  ELSE IF iMass = PiKP THEN PiKP
  ELSE NMassHypoLcToPKPi

\* which branch of the mass-hypothesis-dependent part is taken;
\* NMassHypoLcToPKPi stands for the final else (continue)
MassHypoBranch(c, iMass) ==
  IF iMass = PKPi /\ c.isSelLcToPKPi >= selectionFlagLcToPKPi THEN PKPi
  ELSE IF iMass = PiKP /\ c.isSelLcToPiKP >= selectionFlagLcToPKPi THEN PiKP
  ELSE NMassHypoLcToPKPi

OutputMlPromptForNonPrompt(withMl, mlProb) ==
  IF withMl /\ Len(mlProb) = 3 THEN <<mlProb[1], mlProb[3], mlProb[2]>>
  ELSE <<MlSentinel, MlSentinel, MlSentinel>>

OutputMlZeroInitialised(withMl, mlProb) ==
  IF withMl /\ Len(mlProb) = 3 THEN <<mlProb[1], mlProb[2], mlProb[3]>>
  ELSE <<0, 0, 0>>

\* std::array<float, 3> outputMl{-1., -1., -1.}, overwritten when the score vector has 3 elements
OutputMl(withMl, mlProb) ==
  IF withMl /\ Len(mlProb) = 3 THEN <<mlProb[1], mlProb[2], mlProb[3]>>
  ELSE <<MlSentinel, MlSentinel, MlSentinel>>

\* the local variables as they are defined at the top of each iteration
InitialLocals ==
  [pDau |-> <<-1000, -1000, -1000>>, pCharmHad |-> <<-1000, -1000, -1000>>,
   massDau |-> 0, invMassCharmHad |-> 0, invMassCharmHadForSparse |-> 0,
   rapidity |-> <<"none", << >> >>, outputMl |-> <<MlSentinel, MlSentinel, MlSentinel>>,
   isRotatedCandidate |-> 0, skipped |-> FALSE]

DstarLocalsNoMassDifference(withMl, c) ==
  LET invMassCharmHad == IF c.signSoftPi > 0 THEN c.invMassDstar ELSE c.invMassAntiDstar
  IN [InitialLocals EXCEPT
        !.pDau = c.pSoftPi,
        !.pCharmHad = c.pDstar,
        !.massDau = MassPiPlus,
        !.invMassCharmHad = invMassCharmHad,
        !.invMassCharmHadForSparse = invMassCharmHad,
        !.rapidity = <<"candidate.y", <<c.pDstar, MassDStar>> >>,
        !.outputMl = <<MlSentinel, MlSentinel, MlSentinel>>]

\* the DstarToDzeroPi branch of runPolarisationAnalysis
DstarLocals(withMl, c) ==
  LET invMassCharmHad == IF c.signSoftPi > 0 THEN c.invMassDstar ELSE c.invMassAntiDstar
  IN [InitialLocals EXCEPT
        !.pDau = c.pSoftPi,
        !.pCharmHad = c.pDstar,
        !.massDau = MassPiPlus,
        !.invMassCharmHad = invMassCharmHad,
        !.invMassCharmHadForSparse =
           IF c.signSoftPi > 0 THEN invMassCharmHad - c.invMassD0 ELSE invMassCharmHad - c.invMassD0Bar,
        !.rapidity = <<"candidate.y", <<c.pDstar, MassDStar>> >>,
        !.outputMl = <<MlSentinel, MlSentinel, MlSentinel>>]

\* the mass-hypothesis-independent daughter momenta of the LcToPKPi branch
LcDaughters(c, bkgRotationId) ==
  [bkgRotAngle |-> bkgRotAngle(bkgRotationId),
   threeVecLcProng0 |-> c.pProng0,
   threeVecLcRotatedProng1 |-> threeVecLcRotatedProng1(c, bkgRotAngle(bkgRotationId)),
   threeVecLcProng2 |-> c.pProng2]

\* the LcToPKPi branch of runPolarisationAnalysis
LcLocals(withMl, c, bkgRotationId, iMass) ==
  LET dau == LcDaughters(c, bkgRotationId)
      threeVecLcProng0 == dau.threeVecLcProng0
      rotProng1 == dau.threeVecLcRotatedProng1
      threeVecLcProng2 == dau.threeVecLcProng2
      pCharmHad == IF IsRotated(bkgRotationId)
                     THEN <<threeVecLcProng0[1] + rotProng1[1] + threeVecLcProng2[1],
                            threeVecLcProng0[2] + rotProng1[2] + threeVecLcProng2[2],
                            threeVecLcProng0[3] + rotProng1[3] + threeVecLcProng2[3]>>
                     ELSE c.p
      common == [InitialLocals EXCEPT
                   !.isRotatedCandidate = IF IsRotated(bkgRotationId) THEN 1 ELSE 0,
                   !.pCharmHad = pCharmHad,
                   !.massDau = MassProton,
                   !.rapidity = RecoDecayY(pCharmHad, MassLambdaCPlus)]
      branch == MassHypoBranch(c, iMass)
  IN IF branch = PKPi THEN
       LET m == IF MassIsRotated(bkgRotationId)
                  THEN RecoDecayM(<<threeVecLcProng0, rotProng1, threeVecLcProng2>>,
                                  <<MassProton, MassKaonCharged, MassPiPlus>>)
                  ELSE invMassLcToPKPi(c)
       IN [common EXCEPT !.pDau = c.pProng0, !.invMassCharmHad = m, !.invMassCharmHadForSparse = m,
                         !.outputMl = OutputMl(withMl, c.mlProbLcToPKPi)]
     ELSE IF branch = PiKP THEN
       LET m == IF MassIsRotated(bkgRotationId)
                  THEN RecoDecayM(<<threeVecLcProng0, rotProng1, threeVecLcProng2>>,
                                  <<MassPiPlus, MassKaonCharged, MassProton>>)
                  ELSE invMassLcToPiKP(c)
       IN [common EXCEPT !.pDau = c.pProng2, !.invMassCharmHad = m, !.invMassCharmHadForSparse = m,
                         !.outputMl = OutputMl(withMl, c.mlProbLcToPiKP)]
     ELSE [common EXCEPT !.skipped = TRUE]

\* ----------------------------------------------------------------- fills
\* the order in which runPolarisationAnalysis tests the four toggles
HistOrder == <<HistHelicity, HistProduction, HistBeam, HistRandom>>

cosThetaStarName(h) ==
  CASE h = HistHelicity -> "cosThetaStarHelicity"
    [] h = HistProduction -> "cosThetaStarProduction"
    [] h = HistBeam -> "cosThetaStarBeam"
    [] h = HistRandom -> "cosThetaStarRandom"

\* constants::math::TwoPI and constants::math::PI, as fractions of a full turn
TwoPI == [num |-> 1, den |-> 1]
PI == [num |-> 1, den |-> 2]

\* The stream of gRandom.  The n-th call, made as Uniform(0, x2), returns an
\* angle of the interval; the angle is given by its cosine and sine in fifths.
PhiStream == << <<3, 4>>, <<-4, 3>>, <<0, -5>>, <<4, -3>>, <<-5, 0>> >>
ThetaStream == << <<4, 3>>, <<0, 5>>, <<-3, 4>> >>

gRandomUniform(n, x2) ==
  LET t == IF x2 = TwoPI THEN PhiStream ELSE ThetaStream
  IN [n |-> n, x1 |-> 0, x2 |-> x2,
      cos5 |-> t[(n % Len(t)) + 1][1], sin5 |-> t[(n % Len(t)) + 1][2]]

RandomDrawsOnce(rnd) == <<gRandomUniform(1, TwoPI), gRandomUniform(2, PI)>>

\* phiRandom and thetaRandom, the two draws of an evaluation; rnd is the number
\* of draws taken from gRandom before it
RandomDraws(rnd) == <<gRandomUniform(rnd + 1, TwoPI), gRandomUniform(rnd + 2, PI)>>

\* x / 10 rounded to the nearest integer: MeV to units of 10 MeV
Deca(x) == (x + 5) \div 10
Deca3(v) == <<Deca(v[1]), Deca(v[2]), Deca(v[3])>>

Dot(a, b) == a[1] * b[1] + a[2] * b[2] + a[3] * b[3]

\* a / b rounded to the nearest integer, b > 0
RoundDiv(a, b) == (2 * a + b) \div (2 * b)

\* boost(fourVecDau).Vect() for the boost to the rest frame of fourVecMother,
\* in units of 10 MeV:  p* = p + P ((P.p) / (M (E + M)) - e / M)
threeVecDauCM(l) ==
  LET p == Deca3(l.pDau)
      P == Deca3(l.pCharmHad)
      m == Deca(l.massDau)
      M == Deca(l.invMassCharmHad)
      e == Sqrt(Mag2(p) + m * m)
      E == Sqrt(Mag2(P) + M * M)
      s == M * (E + M)
      k == Dot(P, p) - e * (E + M)
  IN IF s = 0 THEN <<0, 0, 0>>
     ELSE <<RoundDiv(s * p[1] + P[1] * k, s),
            RoundDiv(s * p[2] + P[2] * k, s),
            RoundDiv(s * p[3] + P[3] * k, s)>>

\* randomVec, in units of 1/25
randomVec(draws) ==
  <<draws[2].sin5 * draws[1].cos5, draws[2].sin5 * draws[1].sin5, 5 * draws[2].cos5>>

cosThetaStarValueBareDot(h, l, draws) ==
  LET dauCM == threeVecDauCM(l)
      helicityVec == Deca3(l.pCharmHad)
      normalVec == <<Deca(l.pCharmHad[2]), -Deca(l.pCharmHad[1]), 0>>
  IN CASE h = HistHelicity -> [num |-> Dot(helicityVec, dauCM), den2 |-> Mag2(dauCM)]
       [] h = HistProduction -> [num |-> Dot(normalVec, dauCM), den2 |-> Mag2(dauCM)]
       [] h = HistBeam -> [num |-> Dot(<<0, 0, 1>>, dauCM), den2 |-> Mag2(dauCM)]
       [] h = HistRandom -> [num |-> Dot(randomVec(draws), dauCM), den2 |-> 625 * Mag2(dauCM)]

\* the value of the cosine w.r.t. the axis of histogram h: num / sqrt(den2),
\* where den2 is the product of the squared magnitudes the code divides by
\* (and of 25 * 25 for randomVec, which is in units of 1/25); the value is not
\* finite when den2 = 0
cosThetaStarValue(h, l, draws) ==
  LET dauCM == threeVecDauCM(l)
      helicityVec == Deca3(l.pCharmHad)
      normalVec == <<Deca(l.pCharmHad[2]), -Deca(l.pCharmHad[1]), 0>>
  IN CASE h = HistHelicity ->
            [num |-> Dot(helicityVec, dauCM), den2 |-> Mag2(dauCM) * Mag2(helicityVec)]
       [] h = HistProduction ->
            [num |-> Dot(normalVec, dauCM), den2 |-> Mag2(dauCM) * Mag2(normalVec)]
       [] h = HistBeam ->
            [num |-> Dot(<<0, 0, 1>>, dauCM), den2 |-> Mag2(dauCM)]
       [] h = HistRandom ->
            [num |-> Dot(randomVec(draws), dauCM), den2 |-> 625 * Mag2(dauCM)]

\* the cosine w.r.t. the axis of histogram h: a term over the probe and parent
\* four-vectors (and, for the random axis, the two draws phiRandom, thetaRandom),
\* followed by its value
cosThetaStar(h, l, draws) ==
  LET fourVecDau == <<l.pDau, l.massDau>>
      fourVecMother == <<l.pCharmHad, l.invMassCharmHad>>
  IN IF h = HistRandom
       THEN <<cosThetaStarName(h), <<fourVecDau, fourVecMother, draws>>, cosThetaStarValue(h, l, draws)>>
       ELSE <<cosThetaStarName(h), <<fourVecDau, fourVecMother>>, cosThetaStarValue(h, l, draws)>>

candidatePt(l) == Sqrt(l.pCharmHad[1] * l.pCharmHad[1] + l.pCharmHad[2] * l.pCharmHad[2])

FillArgsNoRotationFlag(channel, withMl, h, l, draws) ==
  LET kin == << <<"invMassCharmHadForSparse", l.invMassCharmHadForSparse>>,
                <<"candidatePt", candidatePt(l)>>,
                <<"pzCharmHad", l.pCharmHad[3]>>,
                <<"rapidity", l.rapidity>>,
                <<cosThetaStarName(h), cosThetaStar(h, l, draws)>> >>
      ml == << <<"outputMl[0]", l.outputMl[1]>>, <<"outputMl[2]", l.outputMl[3]>> >>
  IN IF withMl THEN kin \o ml ELSE kin

\* the argument list of the registry.fill call for histogram h
FillArgs(channel, withMl, h, l, draws) ==
  LET kin == << <<"invMassCharmHadForSparse", l.invMassCharmHadForSparse>>,
                <<"candidatePt", candidatePt(l)>>,
                <<"pzCharmHad", l.pCharmHad[3]>>,
                <<"rapidity", l.rapidity>>,
                <<cosThetaStarName(h), cosThetaStar(h, l, draws)>> >>
      ml == << <<"outputMl[0]", l.outputMl[1]>>, <<"outputMl[2]", l.outputMl[3]>> >>
      rot == << <<"isRotatedCandidate", l.isRotatedCandidate>> >>
  IN IF withMl
       THEN IF channel = DstarToDzeroPi THEN kin \o ml ELSE kin \o ml \o rot
       ELSE IF channel = DstarToDzeroPi THEN kin ELSE kin \o rot

FillsHistogramRandomAlways(h) == h = HistRandom \/ Activated(h)

\* the histograms an evaluation fills: those whose toggle is on
FillsHistogram(h) == Activated(h)

RECURSIVE FillCalls(_, _, _, _, _)
FillCalls(channel, withMl, l, draws, i) ==
  IF i > Len(HistOrder) THEN << >>
  ELSE LET h == HistOrder[i]
           rest == FillCalls(channel, withMl, l, draws, i + 1)
       IN IF FillsHistogram(h)
            THEN <<[hist |-> h, args |-> FillArgs(channel, withMl, h, l, draws)]>> \o rest
            ELSE rest

\* outputMl declared before the loop over mass hypotheses instead of inside it
IterationCarryingOutputMl(channel, withMl, c, ci, bkgRotationId, iMass, rnd) ==
  LET fresh == IF channel = DstarToDzeroPi THEN DstarLocals(withMl, c)
               ELSE LcLocals(withMl, c, bkgRotationId, iMass)
      l == IF channel = LcToPKPi /\ withMl /\ iMass = PiKP /\ ~fresh.skipped
              /\ Len(c.mlProbLcToPiKP) # 3
             THEN [fresh EXCEPT !.outputMl = LcLocals(withMl, c, bkgRotationId, PKPi).outputMl]
             ELSE fresh
      draws == IF l.skipped THEN << >> ELSE RandomDraws(rnd)
  IN [cand |-> ci, channel |-> channel, withMl |-> withMl,
      bkgRotationId |-> bkgRotationId, iMass |-> iMass,
      daughters |-> IF channel = DstarToDzeroPi THEN << >> ELSE LcDaughters(c, bkgRotationId),
      locals |-> l, draws |-> draws,
      fills |-> IF l.skipped THEN << >> ELSE FillCalls(channel, withMl, l, draws, 1)]

\* one iteration of the loop over mass hypotheses; rnd is the number of draws
\* taken from gRandom before it
Iteration(channel, withMl, c, ci, bkgRotationId, iMass, rnd) ==
  LET l == IF channel = DstarToDzeroPi THEN DstarLocals(withMl, c)
           ELSE LcLocals(withMl, c, bkgRotationId, iMass)
      draws == IF l.skipped THEN << >> ELSE RandomDraws(rnd)
  IN [cand |-> ci, channel |-> channel, withMl |-> withMl,
      bkgRotationId |-> bkgRotationId, iMass |-> iMass,
      daughters |-> IF channel = DstarToDzeroPi THEN << >> ELSE LcDaughters(c, bkgRotationId),
      locals |-> l, draws |-> draws,
      fills |-> IF l.skipped THEN << >> ELSE FillCalls(channel, withMl, l, draws, 1)]

\* HistogramRegistry::fill
RegistryFill(reg, f) ==
  IF f.hist \in DOMAIN reg
    THEN [reg EXCEPT ![f.hist].entries = Append(@, f.args)]
    ELSE reg

RECURSIVE RegistryFillAll(_, _, _)
RegistryFillAll(reg, fills, i) ==
  IF i > Len(fills) THEN reg ELSE RegistryFillAll(RegistryFill(reg, fills[i]), fills, i + 1)

\* the effect of one iteration on the registry, the random source and the trace
AfterIteration(st, it) ==
  [registry |-> RegistryFillAll(st.registry, it.fills, 1),
   gRandom |-> st.gRandom + Len(it.draws),
   trace |-> Append(st.trace, it)]

\* for (uint8_t iMass = 0u; iMass < nMassHypos; iMass++)
RECURSIVE MassHypoLoop(_, _, _, _, _, _, _)
MassHypoLoop(channel, withMl, c, ci, bkgRotationId, iMass, st) ==
  IF iMass < nMassHypos
    THEN MassHypoLoop(channel, withMl, c, ci, bkgRotationId, iMass + 1,
                      AfterIteration(st, Iteration(channel, withMl, c, ci, bkgRotationId, iMass, st.gRandom)))
    ELSE st

runPolarisationAnalysis(channel, withMl, c, ci, bkgRotationId, st) ==
  MassHypoLoop(channel, withMl, c, ci, bkgRotationId, 0, st)

LastRotationExclusive == nBkgRotations - 1

\* for (int iRotation = 1; iRotation <= nBkgRotations; iRotation++)
LastRotation == nBkgRotations

RECURSIVE RotationLoopDescending(_, _, _, _, _)
RotationLoopDescending(withMl, c, ci, iRotation, st) ==
  IF iRotation <= LastRotation
    THEN runPolarisationAnalysis(LcToPKPi, withMl, c, ci, iRotation,
                                 RotationLoopDescending(withMl, c, ci, iRotation + 1, st))
    ELSE st

RECURSIVE RotationLoop(_, _, _, _, _)
RotationLoop(withMl, c, ci, iRotation, st) ==
  IF iRotation <= LastRotation
    THEN RotationLoop(withMl, c, ci, iRotation + 1,
                      runPolarisationAnalysis(LcToPKPi, withMl, c, ci, iRotation, st))
    ELSE st

\* ------------------------------------------------------ process functions
\* Filter filterSelectDstarCandidates
filterSelectDstarCandidates(c) == c.isSelDstarToD0Pi = selectionFlagDstarToD0Pi

\* Filter filterSelectLcToPKPiCandidates
filterSelectLcToPKPiCandidates(c) ==
  c.isSelLcToPKPi >= selectionFlagLcToPKPi \/ c.isSelLcToPiKP >= selectionFlagLcToPKPi

Current == [registry |-> registry, gRandom |-> gRandom, trace |-> trace]

Commit(st, c) ==
  /\ registry' = st.registry
  /\ gRandom' = st.gRandom
  /\ trace' = st.trace
  /\ processed' = Append(processed, c)
  /\ UNCHANGED <<config, status, nMassHypos, bkgRotationAngleStep>>

processDstar ==
  /\ status = "ready" /\ doprocessDstar /\ Len(processed) < MaxCands
  /\ UNCHANGED twin
  /\ \E c \in DstarCands :
       /\ filterSelectDstarCandidates(c)
       /\ Commit(runPolarisationAnalysis(DstarToDzeroPi, FALSE, c, Len(processed) + 1, 0, Current), c)

\* the body is empty ("DUMMY")
processDstarWithMl ==
  /\ status = "ready" /\ doprocessDstarWithMl /\ Len(processed) < MaxCands
  /\ UNCHANGED twin
  /\ \E c \in DstarCands :
       /\ filterSelectDstarCandidates(c)
       /\ Commit(Current, c)

processLcToPKPi ==
  /\ status = "ready" /\ doprocessLcToPKPi /\ Len(processed) < MaxCands
  /\ UNCHANGED twin
  /\ \E c \in LcCands :
       /\ filterSelectLcToPKPiCandidates(c)
       /\ LET ci == Len(processed) + 1
          IN Commit(RotationLoop(FALSE, c, ci, 1,
                      runPolarisationAnalysis(LcToPKPi, FALSE, c, ci, 0, Current)), c)

processLcToPKPiWithMl ==
  /\ status = "ready" /\ doprocessLcToPKPiWithMl /\ Len(processed) < MaxCands
  /\ UNCHANGED twin
  /\ \E c \in LcCands :
       /\ filterSelectLcToPKPiCandidates(c)
       /\ LET ci == Len(processed) + 1
          IN Commit(RotationLoop(TRUE, c, ci, 1,
                      runPolarisationAnalysis(LcToPKPi, TRUE, c, ci, 0, Current)), c)

Next ==
  \/ init
  \/ processDstar
  \/ processDstarWithMl
  \/ processLcToPKPi
  \/ processLcToPKPiWithMl

Spec == Init /\ [][Next]_vars

\* ------------------------------------------------- two runs side by side
\* The task run twice under one configuration, each run on its own table of
\* candidates, each with its own registry and random source.
TwinDstarCands == {DstarCand(TRUE, 1), DstarCand(TRUE, -1), DstarCandAlongBeam}

TwinLcCands ==
  {LcCand(1, 0, MlFull, MlFullSwapped), LcCand(1, 1, MlFull, MlEmpty), LcCand(1, 1, MlEmpty, MlEmpty)}

InitTwin ==
  /\ doprocessDstar \in BOOLEAN
  /\ doprocessDstarWithMl = FALSE
  /\ doprocessLcToPKPi \in BOOLEAN
  /\ doprocessLcToPKPiWithMl \in BOOLEAN
  /\ Bit(doprocessDstar) + Bit(doprocessLcToPKPi) + Bit(doprocessLcToPKPiWithMl) = 1
  /\ activateTHnSparseCosThStarHelicity = FALSE
  /\ activateTHnSparseCosThStarProduction \in BOOLEAN
  /\ activateTHnSparseCosThStarBeam = FALSE
  /\ activateTHnSparseCosThStarRandom \in BOOLEAN
  /\ nBkgRotations \in 0..MaxRot
  /\ selectionFlagLcToPKPi = 1
  /\ selectionFlagDstarToD0Pi = TRUE
  /\ status = "constructed"
  /\ nMassHypos = 0
  /\ bkgRotationAngleStep = [num |-> 0, den |-> 1]
  /\ registry = << >>
  /\ gRandom = 0
  /\ processed = << >>
  /\ trace = << >>
  /\ twin = [registry |-> << >>, gRandom |-> 0, processed |-> << >>, trace |-> << >>]

CurrentTwin == [registry |-> twin.registry, gRandom |-> twin.gRandom, trace |-> twin.trace]

CommitTwin(st, c) ==
  twin' = [registry |-> st.registry, gRandom |-> st.gRandom, trace |-> st.trace,
           processed |-> Append(twin.processed, c)]

processDstarTwin ==
  /\ status = "ready" /\ doprocessDstar /\ Len(processed) < MaxCands
  /\ \E c \in TwinDstarCands, d \in TwinDstarCands :
       /\ filterSelectDstarCandidates(c) /\ filterSelectDstarCandidates(d)
       /\ LET ci == Len(processed) + 1
          IN /\ Commit(runPolarisationAnalysis(DstarToDzeroPi, FALSE, c, ci, 0, Current), c)
             /\ CommitTwin(runPolarisationAnalysis(DstarToDzeroPi, FALSE, d, ci, 0, CurrentTwin), d)

processLcToPKPiTwin ==
  /\ status = "ready" /\ doprocessLcToPKPi /\ Len(processed) < MaxCands
  /\ \E c \in TwinLcCands, d \in TwinLcCands :
       /\ filterSelectLcToPKPiCandidates(c) /\ filterSelectLcToPKPiCandidates(d)
       /\ LET ci == Len(processed) + 1
          IN /\ Commit(RotationLoop(FALSE, c, ci, 1,
                         runPolarisationAnalysis(LcToPKPi, FALSE, c, ci, 0, Current)), c)
             /\ CommitTwin(RotationLoop(FALSE, d, ci, 1,
                             runPolarisationAnalysis(LcToPKPi, FALSE, d, ci, 0, CurrentTwin)), d)

processLcToPKPiWithMlTwin ==
  /\ status = "ready" /\ doprocessLcToPKPiWithMl /\ Len(processed) < MaxCands
  /\ \E c \in TwinLcCands, d \in TwinLcCands :
       /\ filterSelectLcToPKPiCandidates(c) /\ filterSelectLcToPKPiCandidates(d)
       /\ LET ci == Len(processed) + 1
          IN /\ Commit(RotationLoop(TRUE, c, ci, 1,
                         runPolarisationAnalysis(LcToPKPi, TRUE, c, ci, 0, Current)), c)
             /\ CommitTwin(RotationLoop(TRUE, d, ci, 1,
                             runPolarisationAnalysis(LcToPKPi, TRUE, d, ci, 0, CurrentTwin)), d)

NextTwin ==
  \/ init
  \/ processDstarTwin
  \/ processLcToPKPiTwin
  \/ processLcToPKPiWithMlTwin

SpecTwin == InitTwin /\ [][NextTwin]_vars

\* ================================================================ claims
LcMode == doprocessLcToPKPi \/ doprocessLcToPKPiWithMl
DstarMode == doprocessDstar \/ doprocessDstarWithMl
MlMode == doprocessDstarWithMl \/ doprocessLcToPKPiWithMl

\* the candidate an iteration of the trace belongs to
CandOf(it) == processed[it.cand]

\* the selection flag of candidate c meets the threshold for hypothesis h
Selected(c, h) ==
  \/ h = PKPi /\ c.isSelLcToPKPi >= selectionFlagLcToPKPi
  \/ h = PiKP /\ c.isSelLcToPiKP >= selectionFlagLcToPKPi

SelectedHypos(c) == {h \in {PKPi, PiKP} : Selected(c, h)}

\* the ML score vector of candidate c for hypothesis h
MlProbOf(c, h) == IF h = PKPi THEN c.mlProbLcToPKPi ELSE c.mlProbLcToPiKP

\* the value passed for the named field in an argument list
ArgValue(args, name) == args[CHOOSE i \in DOMAIN args : args[i][1] = name][2]

NoEntryAnywhere ==
  /\ trace = << >>
  /\ processed = << >>
  /\ gRandom = 0
  /\ \A h \in DOMAIN registry : registry[h].entries = << >>

\* C1: once init has run with zero or with more than one processing mode
\* enabled, the run is in the fatal state, no candidate has been evaluated and
\* no histogram has an entry.
C1_FatalOnProcessCount ==
  (status # "constructed" /\ nProcesses # 1) => (status = "fatal" /\ NoEntryAnywhere)

C1_Witness == status = "fatal" /\ nProcesses = 0 /\ nSparses > 0

\* C2: once init has run with none of the four histogram toggles enabled, the
\* run is in the fatal state and no candidate has been processed; with at
\* least one toggle enabled (and a valid processing mode) init does not fail.
C2_FatalOnNoSparse ==
  /\ (status # "constructed" /\ nSparses = 0) => (status = "fatal" /\ NoEntryAnywhere)
  /\ (status # "constructed" /\ nSparses > 0 /\ nProcesses = 1) => status = "ready"

C2_Witness == status = "fatal" /\ nSparses = 0 /\ nProcesses = 1

\* C3: in an Lc mode, the iterations executed for each processed candidate
\* are exactly the pairs (mass hypothesis, rotation index) of
\* {PKPi, PiKP} x 0..nBkgRotations, each pair once.
C3_LcPairs ==
  (status = "ready" /\ LcMode) =>
    /\ \A i \in DOMAIN trace :
         /\ trace[i].cand \in 1..Len(processed)
         /\ trace[i].iMass \in {PKPi, PiKP}
         /\ trace[i].bkgRotationId \in 0..nBkgRotations
    /\ \A ci \in 1..Len(processed) : \A h \in {PKPi, PiKP} : \A k \in 0..nBkgRotations :
         Cardinality({i \in DOMAIN trace :
                        /\ trace[i].cand = ci
                        /\ trace[i].iMass = h
                        /\ trace[i].bkgRotationId = k}) = 1

C3_Witness ==
  /\ status = "ready" /\ LcMode /\ nBkgRotations = 2 /\ Len(processed) = 1
  /\ \E i \in DOMAIN trace : trace[i].iMass = PiKP /\ trace[i].bkgRotationId = 2

\* C4 as stated: in both D* modes every processed candidate is evaluated exactly
\* once and every enabled histogram has one entry per processed candidate.
C4_Original ==
  (status = "ready" /\ DstarMode) =>
    /\ \A ci \in 1..Len(processed) :
         Cardinality({i \in DOMAIN trace : trace[i].cand = ci}) = 1
    /\ \A h \in DOMAIN registry : Len(registry[h].entries) = Len(processed)

\* C4 (amended): in the D* plain mode every processed candidate is evaluated
\* exactly once, with mass hypothesis 0 and rotation index 0, whatever
\* nBkgRotations is, and every enabled histogram has one entry per processed
\* candidate; in the D*-with-ML mode no candidate is evaluated and no
\* histogram has an entry.
C4_DstarOnce ==
  /\ (status = "ready" /\ doprocessDstar) =>
       /\ \A i \in DOMAIN trace : trace[i].iMass = 0 /\ trace[i].bkgRotationId = 0
       /\ \A ci \in 1..Len(processed) :
            Cardinality({i \in DOMAIN trace : trace[i].cand = ci}) = 1
       /\ \A h \in DOMAIN registry : Len(registry[h].entries) = Len(processed)
  /\ (status = "ready" /\ doprocessDstarWithMl) =>
       /\ trace = << >>
       /\ gRandom = 0
       /\ \A h \in DOMAIN registry : registry[h].entries = << >>

C4_Witness ==
  /\ status = "ready" /\ doprocessDstar /\ nBkgRotations > 0 /\ Len(processed) = 2
  /\ HistBeam \in DOMAIN registry /\ Len(registry[HistBeam].entries) = 2

\* C5: an iteration for a mass hypothesis the Lc candidate is not selected for
\* (while it is selected for the other one) is skipped, at every rotation
\* index: it issues no fill and takes no draw; and no entry of any histogram
\* carries invariant mass 0.
C5_OtherHypothesisSkipped ==
  /\ \A i \in DOMAIN trace :
       (/\ trace[i].channel = LcToPKPi
        /\ ~Selected(CandOf(trace[i]), trace[i].iMass)
        /\ Selected(CandOf(trace[i]), 1 - trace[i].iMass))
       => (trace[i].locals.skipped /\ trace[i].fills = << >> /\ trace[i].draws = << >>)
  /\ LcMode => \A h \in DOMAIN registry : \A j \in DOMAIN registry[h].entries :
       ArgValue(registry[h].entries[j], "invMassCharmHadForSparse") # 0

C5_Witness ==
  \E i \in DOMAIN trace :
    /\ trace[i].channel = LcToPKPi /\ trace[i].bkgRotationId > 0 /\ trace[i].iMass = PiKP
    /\ ~Selected(CandOf(trace[i]), PiKP) /\ Selected(CandOf(trace[i]), PKPi)
    /\ trace[i].locals.skipped
    /\ \E h \in DOMAIN registry : registry[h].entries # << >>

\* the entries of a histogram added by a step
AddedEntries(h) ==
  SubSeq(registry'[h].entries, Len(registry[h].entries) + 1, Len(registry'[h].entries))

CountFlag(entries, flag) ==
  Cardinality({j \in DOMAIN entries : ArgValue(entries[j], "isRotatedCandidate") = flag})

\* C6: processing one Lc candidate whose set S of selected mass hypotheses is
\* non-empty appends exactly |S| * (nBkgRotations + 1) entries to every enabled
\* histogram, |S| of them with rotation flag 0 and |S| * nBkgRotations with
\* rotation flag 1, and a fill carries flag 1 exactly when its rotation index
\* is positive.
C6_Step ==
  (status = "ready" /\ LcMode /\ Len(processed') = Len(processed) + 1) =>
    LET c == processed'[Len(processed')]
        n == Cardinality(SelectedHypos(c))
    IN /\ n > 0
       /\ \A h \in HistNames : Activated(h) =>
            /\ h \in DOMAIN registry'
            /\ SubSeq(registry'[h].entries, 1, Len(registry[h].entries)) = registry[h].entries
            /\ Len(AddedEntries(h)) = n * (nBkgRotations + 1)
            /\ CountFlag(AddedEntries(h), 0) = n
            /\ CountFlag(AddedEntries(h), 1) = n * nBkgRotations
       /\ \A i \in (Len(trace) + 1)..Len(trace') : \A j \in DOMAIN trace'[i].fills :
            ArgValue(trace'[i].fills[j].args, "isRotatedCandidate")
              = (IF trace'[i].bkgRotationId > 0 THEN 1 ELSE 0)

C6_EntriesPerCandidate == [][C6_Step]_vars

C6_Witness ==
  /\ status = "ready" /\ LcMode /\ nBkgRotations = 2 /\ Len(processed) = 1
  /\ Cardinality(SelectedHypos(processed[1])) = 2
  /\ HistHelicity \in DOMAIN registry
  /\ Len(registry[HistHelicity].entries) = 6
  /\ CountFlag(registry[HistHelicity].entries, 1) = 4

\* C7 as stated: in the Lc-with-ML mode an iteration whose ML score vector for
\* the evaluated hypothesis does not have exactly 3 elements issues no fill.
C7_Original ==
  \A i \in DOMAIN trace :
    (/\ trace[i].channel = LcToPKPi /\ trace[i].withMl
     /\ Len(MlProbOf(CandOf(trace[i]), trace[i].iMass)) # 3)
    => trace[i].fills = << >>

\* C7 (amended): in the Lc-with-ML mode an iteration for a selected hypothesis
\* whose ML score vector does not have exactly 3 elements leaves the ML fields
\* at the sentinel -1 and still issues one fill per enabled histogram, each
\* carrying -1 as ML background score and as ML non-prompt score.
C7_SentinelFilled ==
  \A i \in DOMAIN trace :
    (/\ trace[i].channel = LcToPKPi /\ trace[i].withMl
     /\ Selected(CandOf(trace[i]), trace[i].iMass)
     /\ Len(MlProbOf(CandOf(trace[i]), trace[i].iMass)) # 3)
    => /\ trace[i].locals.outputMl = <<MlSentinel, MlSentinel, MlSentinel>>
       /\ Len(trace[i].fills) = nSparses
       /\ \A j \in DOMAIN trace[i].fills :
            /\ ArgValue(trace[i].fills[j].args, "outputMl[0]") = MlSentinel
            /\ ArgValue(trace[i].fills[j].args, "outputMl[2]") = MlSentinel

C7_Witness ==
  \E i \in DOMAIN trace :
    /\ trace[i].channel = LcToPKPi /\ trace[i].withMl
    /\ Selected(CandOf(trace[i]), trace[i].iMass)
    /\ MlProbOf(CandOf(trace[i]), trace[i].iMass) = << >>
    /\ trace[i].fills # << >>
    /\ \E h \in DOMAIN registry : \E j \in DOMAIN registry[h].entries :
         ArgValue(registry[h].entries[j], "outputMl[0]") = MlSentinel

\* the number of fill calls recorded in the trace for histogram h
RECURSIVE FillCount(_, _)
FillCount(h, i) ==
  IF i = 0 THEN 0
  ELSE FillCount(h, i - 1)
       + Cardinality({j \in DOMAIN trace[i].fills : trace[i].fills[j].hist = h})

\* C8: every iteration that is not skipped issues exactly one fill to each
\* histogram whose toggle is on and none to a histogram whose toggle is off;
\* every fill targets a registered histogram and is an entry of it.
C8_OneFillPerEnabledHistogram ==
  /\ \A i \in DOMAIN trace : ~trace[i].locals.skipped =>
       \A h \in HistNames :
         Cardinality({j \in DOMAIN trace[i].fills : trace[i].fills[j].hist = h})
           = (IF Activated(h) THEN 1 ELSE 0)
  /\ \A i \in DOMAIN trace : \A j \in DOMAIN trace[i].fills :
       trace[i].fills[j].hist \in DOMAIN registry
  /\ \A h \in DOMAIN registry :
       Activated(h) /\ Len(registry[h].entries) = FillCount(h, Len(trace))

C8_Witness ==
  /\ activateTHnSparseCosThStarHelicity /\ ~activateTHnSparseCosThStarProduction
  /\ activateTHnSparseCosThStarBeam /\ ~activateTHnSparseCosThStarRandom
  /\ \E i \in DOMAIN trace : Len(trace[i].fills) = 2
  /\ DOMAIN registry = {HistHelicity, HistBeam}
  /\ registry[HistBeam].entries # << >>

\* the axis a filled field belongs to
AxisOfField(name) ==
  CASE name = "invMassCharmHadForSparse" -> "thnAxisInvMass"
    [] name = "candidatePt" -> "thnAxisPt"
    [] name = "pzCharmHad" -> "thnAxisPz"
    [] name = "rapidity" -> "thnAxisY"
    [] name = "cosThetaStarHelicity" -> "thnAxisCosThetaStarHelicity"
    [] name = "cosThetaStarProduction" -> "thnAxisCosThetaStarProduction"
    [] name = "cosThetaStarBeam" -> "thnAxisCosThetaStarBeam"
    [] name = "cosThetaStarRandom" -> "thnAxisCosThetaStarRandom"
    [] name = "outputMl[0]" -> "thnAxisMlBkg"
    [] name = "outputMl[1]" -> "thnAxisMlPrompt"
    [] name = "outputMl[2]" -> "thnAxisMlNonPrompt"
    [] name = "isRotatedCandidate" -> "thnAxisIsRotatedCandidate"

AxesOfArgs(args) == [k \in 1..Len(args) |-> AxisOfField(args[k][1])]

\* the axis list the claim states for histogram h in the active mode
StatedAxes(h) ==
  <<"thnAxisInvMass", "thnAxisPt", "thnAxisPz", "thnAxisY", thnAxisCosThetaStar(h)>>
  \o (IF MlMode THEN <<"thnAxisMlBkg", "thnAxisMlNonPrompt">> ELSE << >>)
  \o (IF LcMode THEN <<"thnAxisIsRotatedCandidate">> ELSE << >>)

StatedFieldCount ==
  IF doprocessDstar THEN 5
  ELSE IF doprocessDstarWithMl THEN 7
  ELSE IF doprocessLcToPKPi THEN 6
  ELSE 8

\* C9: in every valid mode each histogram is declared with the axes (invariant
\* mass, pT, pz, rapidity, cosine), then the two ML axes exactly in the ML
\* modes, then the rotation flag exactly in the Lc modes (5, 7, 6, 8 axes for
\* D*, D* with ML, Lc, Lc with ML), and every fill passes one field per
\* declared axis of its histogram, in the declared order.
C9_FieldsMatchAxes ==
  status = "ready" =>
    /\ \A h \in DOMAIN registry :
         /\ registry[h].axes = StatedAxes(h)
         /\ Len(registry[h].axes) = StatedFieldCount
         /\ \A j \in DOMAIN registry[h].entries :
              AxesOfArgs(registry[h].entries[j]) = registry[h].axes
    /\ \A i \in DOMAIN trace : \A j \in DOMAIN trace[i].fills :
         /\ trace[i].fills[j].hist \in DOMAIN registry
         /\ AxesOfArgs(trace[i].fills[j].args) = registry[trace[i].fills[j].hist].axes
         /\ Len(trace[i].fills[j].args) = StatedFieldCount

C9_Witness ==
  /\ status = "ready" /\ doprocessLcToPKPiWithMl
  /\ HistRandom \in DOMAIN registry
  /\ \E j \in DOMAIN registry[HistRandom].entries : Len(registry[HistRandom].entries[j]) = 8

\* the mass HfHelper returns for candidate c under hypothesis h
StoredInvMass(c, h) == IF h = PKPi THEN c.invMassLcToPKPi ELSE c.invMassLcToPiKP

\* C10: in an Lc iteration with rotation index 0 that is not skipped, the
\* parent momentum and mass are the candidate's px, py, pz and the invariant
\* mass of the evaluated hypothesis, and every filled quantity is computed
\* from these (mass, pT, pz, rapidity and the parent four-vector of the cosine).
C10_IdentityAtRotationZero ==
  \A i \in DOMAIN trace :
    (trace[i].channel = LcToPKPi /\ trace[i].bkgRotationId = 0 /\ ~trace[i].locals.skipped) =>
      LET c == CandOf(trace[i])
          m == StoredInvMass(c, trace[i].iMass)
      IN /\ trace[i].locals.pCharmHad = c.p
         /\ trace[i].locals.invMassCharmHad = m
         /\ \A j \in DOMAIN trace[i].fills :
              LET args == trace[i].fills[j].args
              IN /\ ArgValue(args, "invMassCharmHadForSparse") = m
                 /\ ArgValue(args, "candidatePt") = Sqrt(c.p[1] * c.p[1] + c.p[2] * c.p[2])
                 /\ ArgValue(args, "pzCharmHad") = c.p[3]
                 /\ ArgValue(args, "rapidity") = RecoDecayY(c.p, MassLambdaCPlus)
                 /\ args[5][2][2][2] = <<c.p, m>>

C10_Witness ==
  \E i \in DOMAIN trace :
    /\ trace[i].channel = LcToPKPi /\ trace[i].bkgRotationId = 0 /\ trace[i].iMass = PiKP
    /\ nBkgRotations > 0
    /\ trace[i].fills # << >>
    /\ ArgValue(trace[i].fills[1].args, "invMassCharmHadForSparse") = CandOf(trace[i]).invMassLcToPiKP

\* the angle a is the fraction num / den of a full turn
IsTurnFraction(a, num, den) == a.den > 0 /\ a.num * den = num * a.den

\* C11: with N = nBkgRotations, the rotation angle used at rotation index k is
\* k / (N + 1) of a full turn (k * 2 pi / (N + 1)) for every k in 0..N, 0 at
\* k = 0; the angles of the replicas k = 1..N are pairwise distinct and lie
\* strictly between 0 and a full turn, and the rotated prong differs from the
\* unrotated one.
C11_RotationAngles ==
  /\ status = "ready" =>
       /\ \A k \in 0..nBkgRotations : IsTurnFraction(bkgRotAngle(k), k, nBkgRotations + 1)
       /\ \A k \in 1..nBkgRotations :
            /\ 0 < bkgRotAngle(k).num /\ bkgRotAngle(k).num < bkgRotAngle(k).den
            /\ \A k2 \in 1..nBkgRotations :
                 k # k2 => bkgRotAngle(k).num * bkgRotAngle(k2).den # bkgRotAngle(k2).num * bkgRotAngle(k).den
  /\ \A i \in DOMAIN trace : trace[i].channel = LcToPKPi =>
       LET a == trace[i].daughters.bkgRotAngle
           k == trace[i].bkgRotationId
       IN /\ IsTurnFraction(a, k, nBkgRotations + 1)
          /\ k = 0 => a.num = 0
          /\ k > 0 => /\ 0 < a.num /\ a.num < a.den
                      /\ trace[i].daughters.threeVecLcRotatedProng1 # CandOf(trace[i]).pProng1
          /\ \A j \in DOMAIN trace :
               (trace[j].channel = LcToPKPi /\ trace[j].cand = trace[i].cand
                /\ trace[j].bkgRotationId # k /\ k > 0 /\ trace[j].bkgRotationId > 0)
               => trace[j].daughters.threeVecLcRotatedProng1 # trace[i].daughters.threeVecLcRotatedProng1

C11_Witness ==
  /\ nBkgRotations = 2
  /\ \E i \in DOMAIN trace :
       /\ trace[i].channel = LcToPKPi /\ trace[i].bkgRotationId = 2
       /\ trace[i].daughters.bkgRotAngle = [num |-> 2, den |-> 3]
       /\ ~trace[i].locals.skipped

\* C12: in the Lc-with-ML mode, for a selected hypothesis whose ML score vector
\* has 3 elements, every fill carries elements 0 and 2 of that vector as ML
\* background and ML non-prompt score, at every rotation index 0..N.
C12_MlScoresCopied ==
  \A i \in DOMAIN trace :
    (/\ trace[i].channel = LcToPKPi /\ trace[i].withMl
     /\ Selected(CandOf(trace[i]), trace[i].iMass)
     /\ Len(MlProbOf(CandOf(trace[i]), trace[i].iMass)) = 3)
    => LET ml == MlProbOf(CandOf(trace[i]), trace[i].iMass)
       IN /\ trace[i].fills # << >>
          /\ \A j \in DOMAIN trace[i].fills :
               /\ ArgValue(trace[i].fills[j].args, "outputMl[0]") = ml[1]
               /\ ArgValue(trace[i].fills[j].args, "outputMl[2]") = ml[3]
          /\ \A i2 \in DOMAIN trace :
               (trace[i2].cand = trace[i].cand /\ trace[i2].iMass = trace[i].iMass)
               => \A j \in DOMAIN trace[i].fills : \A j2 \in DOMAIN trace[i2].fills :
                    /\ ArgValue(trace[i2].fills[j2].args, "outputMl[0]")
                         = ArgValue(trace[i].fills[j].args, "outputMl[0]")
                    /\ ArgValue(trace[i2].fills[j2].args, "outputMl[2]")
                         = ArgValue(trace[i].fills[j].args, "outputMl[2]")

C12_Witness ==
  /\ doprocessLcToPKPiWithMl /\ nBkgRotations = 2
  /\ \E i \in DOMAIN trace :
       /\ trace[i].bkgRotationId = 2 /\ trace[i].iMass = PiKP
       /\ CandOf(trace[i]).mlProbLcToPiKP = MlFullSwapped
       /\ trace[i].fills # << >>
       /\ ArgValue(trace[i].fills[1].args, "outputMl[0]") = 700
       /\ ArgValue(trace[i].fills[1].args, "outputMl[2]") = 50

\* the draws taken by the first i iterations of the trace, in order
RECURSIVE DrawsUpTo(_)
DrawsUpTo(i) == IF i = 0 THEN << >> ELSE DrawsUpTo(i - 1) \o trace[i].draws

\* C13: every iteration that is not skipped takes exactly two new draws from
\* the random source, the first from [0, 2 pi] (azimuth) and the second from
\* [0, pi] (polar angle), and builds its random axis from these two; a skipped
\* iteration takes none; no draw is used by two iterations.
C13_FreshRandomAxis ==
  /\ \A i \in DOMAIN trace :
       IF trace[i].locals.skipped THEN trace[i].draws = << >>
       ELSE /\ Len(trace[i].draws) = 2
            /\ trace[i].draws[1].x1 = 0 /\ trace[i].draws[1].x2 = TwoPI
            /\ trace[i].draws[2].x1 = 0 /\ trace[i].draws[2].x2 = PI
            /\ trace[i].draws[2].sin5 >= 0
            /\ \A j \in DOMAIN trace[i].fills :
                 trace[i].fills[j].hist = HistRandom =>
                   trace[i].fills[j].args[5][2][2][3] = trace[i].draws
  /\ LET all == DrawsUpTo(Len(trace))
     IN /\ Len(all) = gRandom
        /\ \A a \in DOMAIN all : all[a].n = a

C13_Witness ==
  /\ gRandom >= 6
  /\ \E i \in DOMAIN trace : \E i2 \in DOMAIN trace :
       /\ trace[i].cand = trace[i2].cand /\ trace[i].bkgRotationId = trace[i2].bkgRotationId
       /\ trace[i].iMass = PKPi /\ trace[i2].iMass = PiKP
       /\ trace[i].draws # << >> /\ trace[i2].draws # << >>
       /\ trace[i].draws[1].n + 2 = trace[i2].draws[1].n
       /\ \E j \in DOMAIN trace[i2].fills : trace[i2].fills[j].hist = HistRandom
  /\ \E i \in DOMAIN trace : trace[i].locals.skipped

\* the cosine value num / sqrt(den2) is finite and lies in [-1, 1]
InUnitRange(v) == v.den2 > 0 /\ v.num * v.num <= v.den2

\* the value of the cosine passed by a fill
CosineOfFill(f) == f.args[5][2][3]

ProbeMomentumNonZero(l) == Mag2(threeVecDauCM(l)) # 0

\* the parent transverse momentum is not zero (at the resolution of the boost)
ParentPtNonZero(l) == Deca(l.pCharmHad[1]) # 0 \/ Deca(l.pCharmHad[2]) # 0

\* C15 as stated: whenever the probe rest-frame momentum is not zero, each
\* cosine filled lies in [-1, 1].
C15_Original ==
  \A i \in DOMAIN trace : ProbeMomentumNonZero(trace[i].locals) =>
    \A j \in DOMAIN trace[i].fills : InUnitRange(CosineOfFill(trace[i].fills[j]))

\* C15 (amended): whenever the probe rest-frame momentum is not zero and the
\* parent transverse momentum is not zero, each cosine filled (helicity,
\* production-normal, beam, random) lies in [-1, 1].
C15_CosinesInRange ==
  \A i \in DOMAIN trace :
    (ProbeMomentumNonZero(trace[i].locals) /\ ParentPtNonZero(trace[i].locals)) =>
      \A j \in DOMAIN trace[i].fills : InUnitRange(CosineOfFill(trace[i].fills[j]))

C15_Witness ==
  /\ nSparses = 4
  /\ \E i \in DOMAIN trace :
       /\ trace[i].channel = LcToPKPi /\ trace[i].bkgRotationId > 0
       /\ ProbeMomentumNonZero(trace[i].locals) /\ ParentPtNonZero(trace[i].locals)
       /\ Len(trace[i].fills) = 4
       /\ \A j \in DOMAIN trace[i].fills :
            CosineOfFill(trace[i].fills[j]).num # 0 /\ InUnitRange(CosineOfFill(trace[i].fills[j]))

\* C16: in a D* evaluation the parent mass is invMassDstar when signSoftPi is
\* positive and invMassAntiDstar otherwise, and the mass filled is the parent
\* mass minus invMassD0 (positive sign) or minus invMassD0Bar (otherwise).
C16_DstarMassDifference ==
  \A i \in DOMAIN trace : trace[i].channel = DstarToDzeroPi =>
    LET c == CandOf(trace[i])
        m == IF c.signSoftPi > 0 THEN c.invMassDstar ELSE c.invMassAntiDstar
        d == IF c.signSoftPi > 0 THEN c.invMassD0 ELSE c.invMassD0Bar
    IN /\ trace[i].locals.invMassCharmHad = m
       /\ trace[i].fills # << >>
       /\ \A j \in DOMAIN trace[i].fills :
            /\ ArgValue(trace[i].fills[j].args, "invMassCharmHadForSparse") = m - d
            /\ trace[i].fills[j].args[5][2][2][2][2] = m

C16_Witness ==
  \E i \in DOMAIN trace :
    /\ trace[i].channel = DstarToDzeroPi /\ CandOf(trace[i]).signSoftPi < 0
    /\ trace[i].fills # << >>
    /\ ArgValue(trace[i].fills[1].args, "invMassCharmHadForSparse") = 146
    /\ trace[i].locals.invMassCharmHad = 2013

\* the arguments of the fills of histogram h made by the first i iterations
RECURSIVE FillsOf(_, _)
FillsOf(h, i) ==
  IF i = 0 THEN << >>
  ELSE FillsOf(h, i - 1)
       \o SelectSeq([j \in DOMAIN trace[i].fills |->
                       IF trace[i].fills[j].hist = h THEN trace[i].fills[j].args ELSE << >>],
                    LAMBDA x : x # << >>)

\* C17: the evaluations are made candidate after candidate, in the order the
\* candidates are delivered, and within a candidate in increasing order of
\* (rotation index, mass hypothesis); the entries of each histogram are in
\* that order.
C17_ProcessingOrder ==
  /\ \A i \in DOMAIN trace : \A j \in DOMAIN trace : i < j =>
       \/ trace[i].cand < trace[j].cand
       \/ /\ trace[i].cand = trace[j].cand
          /\ \/ trace[i].bkgRotationId < trace[j].bkgRotationId
             \/ /\ trace[i].bkgRotationId = trace[j].bkgRotationId
                /\ trace[i].iMass < trace[j].iMass
  /\ \A h \in DOMAIN registry : registry[h].entries = FillsOf(h, Len(trace))

C17_Witness ==
  /\ LcMode /\ nBkgRotations = 2 /\ Len(processed) = 2 /\ Len(trace) = 12
  /\ trace[1].cand = 1 /\ trace[1].bkgRotationId = 0 /\ trace[1].iMass = PKPi
  /\ trace[2].cand = 1 /\ trace[2].bkgRotationId = 0 /\ trace[2].iMass = PiKP
  /\ trace[3].bkgRotationId = 1
  /\ trace[7].cand = 2 /\ trace[7].bkgRotationId = 0
  /\ \E h \in DOMAIN registry : Len(registry[h].entries) = 12

\* the masses RecoDecay::m is given for the three prongs under hypothesis h
MassesOf(h) ==
  IF h = PKPi THEN <<MassProton, MassKaonCharged, MassPiPlus>>
  ELSE <<MassPiPlus, MassKaonCharged, MassProton>>

\* C18: in an Lc evaluation with rotation index k > 0 that is not skipped,
\* prong 0, prong 2 and pz of prong 1 are the candidate's, px and py of
\* prong 1 are rotated; the parent momentum is the sum of these three vectors
\* and the parent mass their three-body mass; the probe momentum is the
\* unrotated momentum of the prong given the proton mass, the same at every
\* rotation index of the candidate and hypothesis.
C18_OnlyProng1Rotated ==
  \A i \in DOMAIN trace :
    (trace[i].channel = LcToPKPi /\ ~trace[i].locals.skipped) =>
      LET c == CandOf(trace[i])
          d == trace[i].daughters
          l == trace[i].locals
          probe == IF MassesOf(trace[i].iMass)[1] = MassProton THEN c.pProng0 ELSE c.pProng2
      IN /\ l.pDau = probe
         /\ l.massDau = MassProton
         /\ \A j \in DOMAIN trace[i].fills : trace[i].fills[j].args[5][2][2][1] = <<probe, MassProton>>
         /\ trace[i].bkgRotationId > 0 =>
              /\ d.threeVecLcProng0 = c.pProng0
              /\ d.threeVecLcProng2 = c.pProng2
              /\ d.threeVecLcRotatedProng1[3] = c.pProng1[3]
              /\ d.threeVecLcRotatedProng1[1] # c.pProng1[1]
              /\ d.threeVecLcRotatedProng1[2] # c.pProng1[2]
              /\ l.pCharmHad = <<c.pProng0[1] + d.threeVecLcRotatedProng1[1] + c.pProng2[1],
                                 c.pProng0[2] + d.threeVecLcRotatedProng1[2] + c.pProng2[2],
                                 c.p[3]>>
              /\ l.invMassCharmHad
                   = RecoDecayM(<<c.pProng0, d.threeVecLcRotatedProng1, c.pProng2>>,
                                MassesOf(trace[i].iMass))
              /\ \A j \in DOMAIN trace[i].fills :
                   /\ ArgValue(trace[i].fills[j].args, "invMassCharmHadForSparse") = l.invMassCharmHad
                   /\ ArgValue(trace[i].fills[j].args, "pzCharmHad") = c.p[3]

C18_Witness ==
  \E i \in DOMAIN trace :
    /\ trace[i].channel = LcToPKPi /\ trace[i].bkgRotationId = 1 /\ nBkgRotations = 1
    /\ trace[i].iMass = PiKP /\ ~trace[i].locals.skipped
    /\ trace[i].daughters.threeVecLcRotatedProng1 = <<100, -600, -100>>
    /\ trace[i].locals.pCharmHad = <<1200, -800, 400>>
    /\ trace[i].locals.pDau = <<300, -300, 200>>
    /\ trace[i].fills # << >>

\* candidates c and d give hypothesis h the same inputs: prong and candidate
\* momenta, and the selection flag, stored mass and ML scores of h
SameForHypothesis(c, d, h) ==
  IF c.kind = "Dstar" THEN c = d
  ELSE /\ d.kind = "Lc"
       /\ c.pProng0 = d.pProng0 /\ c.pProng1 = d.pProng1 /\ c.pProng2 = d.pProng2 /\ c.p = d.p
       /\ IF h = PKPi
            THEN /\ c.isSelLcToPKPi = d.isSelLcToPKPi
                 /\ c.invMassLcToPKPi = d.invMassLcToPKPi
                 /\ c.mlProbLcToPKPi = d.mlProbLcToPKPi
            ELSE /\ c.isSelLcToPiKP = d.isSelLcToPiKP
                 /\ c.invMassLcToPiKP = d.invMassLcToPiKP
                 /\ c.mlProbLcToPiKP = d.mlProbLcToPiKP

\* two fill calls pass the same values, the random-axis cosine left aside
SameFillButRandomCosine(f, g) ==
  /\ f.hist = g.hist
  /\ Len(f.args) = Len(g.args)
  /\ \A k \in DOMAIN f.args :
       IF k = 5 /\ f.hist = HistRandom
         THEN /\ f.args[k][2][2][1] = g.args[k][2][2][1]
              /\ f.args[k][2][2][2] = g.args[k][2][2][2]
         ELSE f.args[k] = g.args[k]

\* C14 as stated: the evaluation of one (candidate, mass hypothesis, rotation
\* index) at one position of the table fills the same values in two runs,
\* whatever the earlier evaluations of the two runs were.
C14_Original ==
  \A i \in DOMAIN trace : \A j \in DOMAIN twin.trace :
    ( /\ trace[i].cand = twin.trace[j].cand
      /\ processed[trace[i].cand] = twin.processed[twin.trace[j].cand]
      /\ trace[i].iMass = twin.trace[j].iMass
      /\ trace[i].bkgRotationId = twin.trace[j].bkgRotationId )
    => trace[i].fills = twin.trace[j].fills

\* C14 (amended): two evaluations of the same mass hypothesis and rotation
\* index on candidates that give that hypothesis the same inputs compute the
\* same local values and fill the same histograms with the same values, the
\* random-axis cosine excepted, whatever was evaluated before them in their
\* runs and whatever the other mass hypothesis of their candidates holds.
C14_NoInterference ==
  \A i \in DOMAIN trace : \A j \in DOMAIN twin.trace :
    ( /\ SameForHypothesis(processed[trace[i].cand], twin.processed[twin.trace[j].cand],
                           trace[i].iMass)
      /\ trace[i].iMass = twin.trace[j].iMass
      /\ trace[i].bkgRotationId = twin.trace[j].bkgRotationId )
    => /\ trace[i].locals = twin.trace[j].locals
       /\ trace[i].daughters = twin.trace[j].daughters
       /\ Len(trace[i].fills) = Len(twin.trace[j].fills)
       /\ \A k \in DOMAIN trace[i].fills :
            SameFillButRandomCosine(trace[i].fills[k], twin.trace[j].fills[k])

\* the second candidate is the same in the two runs, the first was evaluated
\* for both hypotheses in one run and skipped for piKp in the other, and the
\* second candidate's piKp evaluation has no ML scores of its own
C14_Witness ==
  /\ doprocessLcToPKPiWithMl /\ activateTHnSparseCosThStarRandom
  /\ Len(processed) = 2
  /\ processed[1] = LcCand(1, 0, MlFull, MlFullSwapped)
  /\ twin.processed[1] = LcCand(1, 1, MlFull, MlEmpty)
  /\ processed[2] = LcCand(1, 1, MlFull, MlEmpty)
  /\ twin.processed[2] = LcCand(1, 1, MlEmpty, MlEmpty)
  /\ gRandom < twin.gRandom
  /\ \E i \in DOMAIN trace : \E j \in DOMAIN twin.trace :
       /\ trace[i].cand = 2 /\ twin.trace[j].cand = 2
       /\ trace[i].iMass = PiKP /\ twin.trace[j].iMass = PiKP
       /\ trace[i].bkgRotationId = twin.trace[j].bkgRotationId
       /\ trace[i].fills # << >>
       /\ trace[i].draws # twin.trace[j].draws
       /\ \E k \in DOMAIN trace[1].fills : trace[1].fills[k].args[6][2] = 100

====
